---- MODULE Spec2Model ----
(***************************************************************************)
(* A model of node_server.py: the Block and Blockchain classes, the        *)
(* consensus procedure and the request handlers that drive them.           *)
(*                                                                         *)
(* Reading of the source.  A handful of identifiers in node_server.py are  *)
(* bound nowhere; each has exactly one member it can denote and is read as *)
(* that member:                                                            *)
(*   self.generate_hash()  (line 26)    -> Block.compute_hash              *)
(*   difficulty            (line 102)   -> Blockchain.difficulty           *)
(*   timestamp=            (line 124)   -> the time_stamp parameter        *)
(*   blockchain.mine()     (line 333)   -> Blockchain.interface            *)
(*   app                   (line 193..) -> application                     *)
(*   requests              (line 169..) -> the requests library            *)
(* Everything else is modelled as written, including what the statements   *)
(* do at run time (the nonce reset of line 106, the dead assignment of     *)
(* line 87, the attribute deleted at line 146 and read at line 148, the    *)
(* second genesis block of lines 284 and 296).                             *)
(*                                                                         *)
(* Strings produced by sha256(...).hexdigest() are modelled as sequences:  *)
(* the first two elements are the first two hex digits, the remaining      *)
(* elements stand for the other 62 digits and carry the hashed header, so  *)
(* that two digests are equal exactly when the headers are (no collisions).*)
(* The string "0" is the one-element sequence <<0>>.                       *)
(***************************************************************************)
EXTENDS Integers, Sequences, FiniteSets, TLC

\* Blockchain.difficulty, the number of leading zero hex digits required.
difficulty == 2

\* ------------------------------------------------------------------ bounds
\* The handlers that may grow the chain are disabled at this chain length.
MaxChain == 2
\* new_transaction is disabled when the pool holds this many transactions.
MaxPending == 1

\* The values datetime.datetime.now() may return.
Times == {0, 1}
\* The node addresses that may register with this node.
Peers == {"p1", "p2"}

\* The previous_hash of a genesis block, the string "0".
Sentinel == <<0>>
\* The value of a block's hash attribute after delattr(block, "hash").
NoHash == <<-1>>

\* ------------------------------------------------------------ transactions
Authors == {"", "a"}
Contents == {"", "hello"}

\* request.get_json() of /new_transaction.
TxData == [author : Authors, content : Contents]

\* ------------------------------------------------------------------ sha256
RECURSIVE TxsNum(_)
TxsNum(txs) ==
    IF txs = <<>> THEN 0
    ELSE (IF Head(txs).content = "hello" THEN 1 ELSE 2)
         + (IF Head(txs).author = "a" THEN 0 ELSE 1)
         + Head(txs).timestamp + 1 + TxsNum(Tail(txs))

\* A number read off a hash string: its leading digits and, for a digest,
\* the time stamp and the nonce it carries.
StrNum(h) ==
    IF Len(h) = 6 THEN h[1] + h[2] + h[3] + h[6] + 1
    ELSE IF Len(h) = 0 THEN 0 ELSE h[1]

\* The first two hex digits of the digest of a header.
LeadDigits(v) ==
    CASE v = 0 -> <<0, 0>>
      [] v = 1 -> <<0, 7>>
      [] v = 2 -> <<4, 0>>
      [] OTHER -> <<12, 5>>

\* sha256(block_header.encode()).hexdigest() for the header
\* str(time_stamp) + str(transactions) + str(previous_hash) + str(nonce).
Sha256Hex(time_stamp, transactions, previous_hash, nonce) ==
    LeadDigits((time_stamp + TxsNum(transactions) + StrNum(previous_hash) + nonce) % 4)
        \o <<time_stamp, transactions, previous_hash, nonce>>

\* s.startswith('0' * n), also s[:n] == '0' * n.
StartsWithZeros(s, n) ==
    /\ Len(s) >= n
    /\ \A i \in 1..n : s[i] = 0

\* ------------------------------------------------------------------- Block
\* Block.compute_hash: the digest of the time stamp, the transactions, the
\* previous hash and the nonce; the index and the stored hash are not hashed.
compute_hash(block) ==
    Sha256Hex(block.time_stamp, block.transactions, block.previous_hash, block.nonce)

\* Block.__init__: the time_stamp argument is ignored, the block is stamped
\* with now; the nonce is 0 and the hash is computed at once.
Block(index, transactions, time_stamp, previous_hash, now) ==
    LET fields == [index |-> index, time_stamp |-> now,
                   transactions |-> transactions,
                   previous_hash |-> previous_hash, nonce |-> 0,
                   hash |-> NoHash]
    IN  [fields EXCEPT !.hash = compute_hash(fields)]

\* -------------------------------------------------------------- Blockchain
\* Blockchain.genesis_block: index 0, no transactions, previous_hash "0".
genesis_block(now) ==
    LET genesis == Block(0, <<>>, now, Sentinel, now)
    IN  [genesis EXCEPT !.hash = compute_hash(genesis)]

\* Blockchain.__init__: a chain holding the genesis block, an empty pool.
NewBlockchain(now) ==
    [chain |-> <<genesis_block(now)>>, unconfirmed_transactions |-> <<>>]

\* Blockchain.last_block
last_block(chain) == chain[Len(chain)]

\* is_valid without the comparison with the block's digest.
is_valid_zeros_only(block, block_hash) ==
    StartsWithZeros(block_hash, difficulty)

\* Blockchain.is_valid
is_valid(block, block_hash) ==
    /\ StartsWithZeros(block_hash, difficulty)
    /\ block_hash = compute_hash(block)

\* Blockchain.add_block: the block is appended as it is (line 87 assigns the
\* local name proof, the block's hash attribute is not touched).
add_block(chain, block, proof) ==
    LET previous_block_hash == last_block(chain).hash
    IN  IF previous_block_hash # block.previous_hash
        THEN [added |-> FALSE, chain |-> chain]
        ELSE IF ~is_valid(block, proof)
        THEN [added |-> FALSE, chain |-> chain]
        ELSE [added |-> TRUE, chain |-> Append(chain, block)]

\* The while loop of Blockchain.proof_of_work: the first nonce, from the
\* block's own, whose digest has the leading zeros.
RECURSIVE pow_search(_)
pow_search(block) ==
    IF StartsWithZeros(compute_hash(block), difficulty)
    THEN block
    ELSE pow_search([block EXCEPT !.nonce = block.nonce + 1])

\* Blockchain.proof_of_work: returns the proof found; the block it leaves
\* behind has its nonce reset to 0 (line 106).
proof_of_work(block) ==
    LET found == pow_search(block)
    IN  [proof |-> compute_hash(found), block |-> [found EXCEPT !.nonce = 0]]

\* interface without the test of the pool at line 117.
interface_without_pool_test(bc, now) ==
    LET last == last_block(bc.chain)
        new_block == Block(last.index + 1, bc.unconfirmed_transactions,
                           now, last.hash, now)
        pow == proof_of_work(new_block)
        res == add_block(bc.chain, pow.block, pow.proof)
    IN  [mined |-> TRUE, added |-> res.added, index |-> pow.block.index,
         bc |-> [chain |-> res.chain, unconfirmed_transactions |-> <<>>],
         proof |-> pow.proof, block |-> pow.block]

\* Blockchain.interface: FALSE with an empty pool; otherwise a block is
\* built on the tip, mined and offered to add_block, whose result is not
\* read: the pool is emptied and the block's index returned either way.
interface(bc, now) ==
    IF bc.unconfirmed_transactions = <<>>
    THEN [mined |-> FALSE, added |-> FALSE, index |-> 0, bc |-> bc,
          proof |-> NoHash, block |-> last_block(bc.chain)]
    ELSE LET last == last_block(bc.chain)
             new_block == Block(last.index + 1, bc.unconfirmed_transactions,
                                now, last.hash, now)
             pow == proof_of_work(new_block)
             res == add_block(bc.chain, pow.block, pow.proof)
         IN  [mined |-> TRUE, added |-> res.added, index |-> pow.block.index,
              bc |-> [chain |-> res.chain, unconfirmed_transactions |-> <<>>],
              proof |-> pow.proof, block |-> pow.block]

\* Blockchain.check_chain_validity. Each block's hash attribute is read,
\* then deleted (line 146); line 148 reads the deleted attribute, which
\* raises AttributeError and leaves the block without its hash. The result
\* is [raised, result, chain], chain being the checked chain afterwards.
RECURSIVE validity_loop(_, _, _)
validity_loop(c, i, previous_hash) ==
    IF i > Len(c)
    THEN [raised |-> FALSE, result |-> TRUE, chain |-> c]
    ELSE IF c[i].hash = NoHash
    THEN [raised |-> TRUE, result |-> TRUE, chain |-> c]
    ELSE LET block_hash == c[i].hash
             deleted == [c EXCEPT ![i].hash = NoHash]
             block == deleted[i]
         IN  IF block.hash = NoHash
             THEN [raised |-> TRUE, result |-> TRUE, chain |-> deleted]
             ELSE IF ~is_valid(block, block.hash)
                     \/ previous_hash # block.previous_hash
             THEN [raised |-> FALSE, result |-> FALSE, chain |-> deleted]
             ELSE validity_loop([deleted EXCEPT ![i].hash = block_hash],
                                i + 1, block_hash)

check_chain_validity(c) == validity_loop(c, 1, Sentinel)

\* The for loop of consensus over the responses of the participants, in
\* the order they are visited. A response is [fails, length, chain]: the
\* fetch raises, or the peer reports a length and serves a chain.
\* longest is [none, chain]: none is TRUE while longest_chain is None.
RECURSIVE consensus_loop(_, _, _, _)
consensus_loop(responses, i, current_len, longest) ==
    IF i > Len(responses)
    THEN [raised |-> FALSE, longest |-> longest]
    ELSE IF responses[i].fails
    THEN [raised |-> TRUE, longest |-> longest]
    ELSE IF responses[i].length > current_len
    THEN LET v == check_chain_validity(responses[i].chain)
         IN  IF v.raised
             THEN [raised |-> TRUE, longest |-> longest]
             ELSE IF v.result
             THEN consensus_loop(responses, i + 1, responses[i].length,
                                 [none |-> FALSE, chain |-> v.chain])
             ELSE consensus_loop(responses, i + 1, current_len, longest)
    ELSE consensus_loop(responses, i + 1, current_len, longest)

\* consensus: "replaced" when longest_chain is a non-empty list, which then
\* becomes the value of the global blockchain; "kept" when it returns
\* False; "raised" when an exception leaves it.
consensus(local_chain, responses) ==
    LET r == consensus_loop(responses, 1, Len(local_chain),
                            [none |-> TRUE, chain |-> <<>>])
    IN  IF r.raised
        THEN [outcome |-> "raised", chain |-> local_chain]
        ELSE IF ~r.longest.none /\ r.longest.chain # <<>>
        THEN [outcome |-> "replaced", chain |-> r.longest.chain]
        ELSE [outcome |-> "kept", chain |-> local_chain]

\* create_chain_from_dump: a new Blockchain, which holds its own genesis
\* block, then one Block per dumped record, built at the times nows[..];
\* the first is appended unchecked, the others go through add_block, and a
\* rejected one raises. A record without the key "timestamp" raises
\* KeyError at line 288.
RECURSIVE dump_loop(_, _, _, _)
dump_loop(c, chain_dump, idx, nows) ==
    IF idx > Len(chain_dump)
    THEN [raised |-> FALSE, error |-> "", chain |-> c]
    ELSE LET block_data == chain_dump[idx]
         IN  IF "timestamp" \notin DOMAIN block_data
             THEN [raised |-> TRUE, error |-> "KeyError", chain |-> c]
             ELSE LET block == Block(block_data.index, block_data.transactions,
                                     block_data.timestamp,
                                     block_data.previous_hash, nows[idx])
                      proof == block_data.hash
                  IN  IF idx > 1
                      THEN LET res == add_block(c, block, proof)
                           IN  IF ~res.added
                               THEN [raised |-> TRUE, error |-> "tampered",
                                     chain |-> c]
                               ELSE dump_loop(res.chain, chain_dump, idx + 1, nows)
                      ELSE dump_loop(Append(c, block), chain_dump, idx + 1, nows)

create_chain_from_dump(chain_dump, nows) ==
    dump_loop(NewBlockchain(nows[0]).chain, chain_dump, 1, nows)

\* ------------------------------------------------- what the peers may send
\* A transaction as a peer holds it.
PeerTx == [author |-> "a", content |-> "hello", timestamp |-> 0]

\* A block mined by a peer: the winning nonce is kept and the hash stored.
PeerMine(block) ==
    LET found == pow_search(block)
    IN  [found EXCEPT !.hash = compute_hash(found)]

\* The block a peer mines on top of prev at time ts.
PeerBlock(prev, ts) ==
    PeerMine(Block(prev.index + 1, <<PeerTx>>, ts, prev.hash, ts))

\* Peer chains of one, two and three blocks; their blocks are mined at
\* times for which the nonce 0 wins. PeerBroken3 has its last link broken.
Peer1 == <<genesis_block(0)>>
Peer2 == Append(Peer1, PeerBlock(Peer1[1], 1))
Peer3 == Append(Peer2, PeerBlock(Peer2[2], 0))
PeerBroken3 == [Peer3 EXCEPT ![3].previous_hash = Sentinel]

\* get_chain: the length of the chain and the __dict__ of every block, with
\* the keys index, time_stamp, transactions, previous_hash, nonce, hash.
get_chain(c) == [length |-> Len(c), chain |-> c]

\* A block as the handlers read it from a request or a response: with the
\* key "timestamp" (lines 286-290 and 306-311).
BlockView(b) ==
    [index |-> b.index, timestamp |-> b.time_stamp,
     transactions |-> b.transactions, previous_hash |-> b.previous_hash,
     nonce |-> b.nonce, hash |-> b.hash]

\* response.json()['chain'] of /register_node, by name: the block views of
\* no block, of Peer1, of Peer2 and of PeerBroken3, and "dict2", what
\* get_chain gives on a node whose chain is Peer2.
DumpNames == {"empty", "peer1", "peer2", "broken3", "dict2"}

Dump(name) ==
    CASE name = "empty"   -> <<>>
      [] name = "peer1"   -> [i \in 1..1 |-> BlockView(Peer1[i])]
      [] name = "peer2"   -> [i \in 1..2 |-> BlockView(Peer2[i])]
      [] name = "broken3" -> [i \in 1..3 |-> BlockView(PeerBroken3[i])]
      [] OTHER            -> get_chain(Peer2).chain

\* What requests.get('{}/chain') gives for one participant, by name: the
\* fetch fails, or a length is reported with a chain; "lie" reports a
\* length of 3 with no block at all.
ResponseNames == {"fails", "peer1", "peer2", "peer3", "broken3", "lie"}

Response(name) ==
    CASE name = "fails"   -> [fails |-> TRUE, length |-> 0, chain |-> <<>>]
      [] name = "peer1"   -> [fails |-> FALSE, length |-> 1, chain |-> Peer1]
      [] name = "peer2"   -> [fails |-> FALSE, length |-> 2, chain |-> Peer2]
      [] name = "peer3"   -> [fails |-> FALSE, length |-> 3, chain |-> Peer3]
      [] name = "broken3" -> [fails |-> FALSE, length |-> 3, chain |-> PeerBroken3]
      [] OTHER            -> [fails |-> FALSE, length |-> 3, chain |-> <<>>]

\* All the ways to visit n participants, as sequences of response names.
ResponseSeqs(n) == [1..n -> ResponseNames]

\* The responses named by a sequence of names.
ResponsesOf(names) == [i \in 1..Len(names) |-> Response(names[i])]

\* request.get_json() of /add_block, sent by a peer that sees the chain c:
\* a block on the tip or on the second block of Peer2, with the index of
\* the next block or 0, claiming the hash of a block mined at time t, the
\* digest at nonce 0 for time t, or that digest with its leading digits
\* overwritten by zeros.
BlockData(c) ==
    LET last == last_block(c)
    IN  UNION {
          LET mined == PeerMine(Block(index, <<PeerTx>>, t, prev, t))
              d0 == Sha256Hex(t, <<PeerTx>>, prev, 0)
          IN  {[index |-> index, transactions |-> <<PeerTx>>, timestamp |-> t,
                previous_hash |-> prev, hash |-> h] :
                  h \in {mined.hash, d0, [d0 EXCEPT ![1] = 0, ![2] = 0]}}
          : index \in {last.index + 1, 0}, prev \in {last.hash, Peer2[2].hash},
            t \in Times}

\* ---------------------------------------------------------------- the node
VARIABLES
    chain,                     \* blockchain.chain, or blockchain when a list
    unconfirmed_transactions,  \* blockchain.unconfirmed_transactions
    blockchain_is_list,        \* the global blockchain is a chain, no Blockchain
    participants,              \* the global participants
    last,                      \* the last request served and its outcome
    miner                      \* the /mine request in progress, if any

vars == <<chain, unconfirmed_transactions, blockchain_is_list, participants, last,
          miner>>

\* No block: the value of miner.block when no /mine request is in progress.
NoBlock ==
    [index |-> -1, transactions |-> <<>>, time_stamp |-> 0,
     previous_hash |-> NoHash, nonce |-> 0, hash |-> NoHash]

\* A /mine request in progress is inside interface: at "built" it has built
\* new_block (line 125), at "proved" it has run proof_of_work (line 127).
\* block is new_block, whose transactions are the list object of the pool
\* (line 123) until the pool is rebound at line 131; proof is the proof
\* found; pending is the pool as it was when the block was built.
Idle == [pc |-> "idle", block |-> NoBlock, proof |-> NoHash, pending |-> <<>>]

\* 1 while a /mine request is in progress, when the pool may hold one
\* transaction more.
InProgress == IF miner.pc = "idle" THEN 0 ELSE 1

\* The record kept of the last request: the handler, its response, what
\* add_block returned, the index returned or carried, the condition that
\* decided add_block or the exception raised, the proof returned by
\* proof_of_work and the digest of the mined block recomputed on return, the
\* outcome of consensus and the responses it was given, the dump received.
Outcome(op, ret) ==
    [op |-> op, ret |-> ret, added |-> FALSE, index |-> 0, why |-> "",
     proof |-> NoHash, recomputed |-> NoHash,
     consensus |-> "none", responses |-> <<>>, dump |-> "none"]

\* Module start: blockchain = Blockchain(), participants = set().
Init ==
    \E now \in Times :
        /\ chain = NewBlockchain(now).chain
        /\ unconfirmed_transactions = NewBlockchain(now).unconfirmed_transactions
        /\ blockchain_is_list = FALSE
        /\ participants = {}
        /\ last = Outcome("start", "")
        /\ miner = Idle

\* new_transaction (POST /new_transaction)
NewTransaction ==
    \E tx_data \in TxData, now \in Times :
        /\ Len(unconfirmed_transactions) < MaxPending + InProgress
        /\ IF tx_data.author = "" \/ tx_data.content = ""
           THEN /\ last' = Outcome("new_transaction", "404")
                /\ UNCHANGED <<unconfirmed_transactions, miner>>
           ELSE IF blockchain_is_list
           THEN /\ last' = Outcome("new_transaction", "raised")
                /\ UNCHANGED <<unconfirmed_transactions, miner>>
           ELSE LET tx == [author |-> tx_data.author, content |-> tx_data.content,
                           timestamp |-> now]
                IN  /\ unconfirmed_transactions' =
                           Append(unconfirmed_transactions, tx)
                    /\ miner' = IF miner.pc = "idle"
                                THEN miner
                                ELSE [miner EXCEPT !.block.transactions =
                                                       Append(@, tx)]
                    /\ last' = Outcome("new_transaction", "201")
        /\ UNCHANGED <<chain, blockchain_is_list, participants>>

\* mine_unconfirmed_transactions (GET /mine, the definition of line 332):
\* Blockchain.interface, then consensus, then the announcement.
Mine ==
    /\ Len(chain) < MaxChain
    /\ IF blockchain_is_list
       THEN /\ last' = Outcome("mine", "raised")
            /\ UNCHANGED <<chain, unconfirmed_transactions, blockchain_is_list>>
       ELSE \E now \in Times :
            LET r == interface([chain |-> chain,
                                unconfirmed_transactions |-> unconfirmed_transactions],
                               now)
            IN  IF ~r.mined \/ r.index = 0
                THEN /\ chain' = r.bc.chain
                     /\ unconfirmed_transactions' = r.bc.unconfirmed_transactions
                     /\ UNCHANGED blockchain_is_list
                     /\ last' = [Outcome("mine", "no_tx") EXCEPT
                                    !.added = r.added, !.index = r.index,
                                    !.proof = r.proof,
                                    !.recomputed = IF r.mined
                                                   THEN compute_hash(r.block)
                                                   ELSE NoHash]
                ELSE \E names \in ResponseSeqs(Cardinality(participants)) :
                     LET c == consensus(r.bc.chain, ResponsesOf(names))
                     IN  /\ chain' = c.chain
                         /\ blockchain_is_list' = (c.outcome = "replaced")
                         /\ unconfirmed_transactions' =
                                IF c.outcome = "replaced" THEN <<>>
                                ELSE r.bc.unconfirmed_transactions
                         /\ last' = [Outcome("mine",
                                        IF c.outcome = "kept" THEN "mined"
                                        ELSE "raised") EXCEPT
                                       !.added = r.added, !.index = r.index,
                                       !.proof = r.proof,
                                       !.recomputed = compute_hash(r.block),
                                       !.consensus = c.outcome,
                                       !.responses = names]
    /\ UNCHANGED <<participants, miner>>

\* verify_and_add_block (POST /add_block)
AddBlock ==
    \E block_data \in BlockData(chain), now \in Times :
        /\ Len(chain) < MaxChain
        /\ IF blockchain_is_list
           THEN /\ last' = Outcome("add_block", "raised")
                /\ UNCHANGED chain
           ELSE LET block == Block(block_data.index, block_data.transactions,
                                   block_data.timestamp, block_data.previous_hash,
                                   now)
                    proof == block_data.hash
                    res == add_block(chain, block, proof)
                IN  /\ chain' = res.chain
                    /\ last' = [Outcome("add_block",
                                    IF res.added THEN "added" ELSE "discarded") EXCEPT
                                  !.added = res.added, !.index = block.index,
                                  !.why = IF last_block(chain).hash # block.previous_hash
                                          THEN "stale"
                                          ELSE IF ~StartsWithZeros(proof, difficulty)
                                          THEN "difficulty"
                                          ELSE IF proof # compute_hash(block)
                                          THEN "digest" ELSE "ok"]
        /\ UNCHANGED <<unconfirmed_transactions, blockchain_is_list, participants,
                       miner>>

\* register_new_participants (POST /register_node)
RegisterNode ==
    \E node_address \in Peers \cup {""} :
        /\ IF node_address = ""
           THEN /\ last' = Outcome("register_node", "400")
                /\ UNCHANGED participants
           ELSE /\ participants' = participants \cup {node_address}
                /\ last' = Outcome("register_node",
                                   IF blockchain_is_list THEN "raised" ELSE "chain")
        /\ UNCHANGED <<chain, unconfirmed_transactions, blockchain_is_list, miner>>

\* register_with_existing_node (POST /register_with): the remote node
\* answers with a status, a chain dump and, possibly, its participants.
RegisterWith ==
    /\ UNCHANGED miner
    /\ \E node_address \in {"", "p1"} :
        IF node_address = ""
        THEN /\ last' = Outcome("register_with", "400")
             /\ UNCHANGED <<chain, unconfirmed_transactions, blockchain_is_list,
                            participants>>
        ELSE \E status_ok \in BOOLEAN :
        IF ~status_ok
        THEN /\ last' = Outcome("register_with", "error")
             /\ UNCHANGED <<chain, unconfirmed_transactions, blockchain_is_list,
                            participants>>
        ELSE \E name \in DumpNames :
             \E nows \in [0..Len(Dump(name)) -> Times] :
             LET chain_dump == Dump(name)
                 r == create_chain_from_dump(chain_dump, nows)
             IN  IF r.raised
                 THEN /\ last' = [Outcome("register_with", "raised") EXCEPT
                                     !.why = r.error, !.dump = name]
                      /\ UNCHANGED <<chain, unconfirmed_transactions,
                                     blockchain_is_list, participants>>
                 ELSE /\ chain' = r.chain
                      /\ unconfirmed_transactions' = <<>>
                      /\ blockchain_is_list' = FALSE
                      /\ \E remote \in {"none"} \cup Peers :
                         IF remote = "none"
                         THEN /\ UNCHANGED participants
                              /\ last' = [Outcome("register_with", "raised") EXCEPT
                                             !.why = "participants",
                                             !.dump = name]
                         ELSE /\ participants' = participants \cup {remote}
                              /\ last' = [Outcome("register_with", "200") EXCEPT
                                             !.dump = name]

Next ==
    \/ NewTransaction
    \/ Mine
    \/ AddBlock
    \/ RegisterNode
    \/ RegisterWith

Spec == Init /\ [][Next]_vars

\* ------------------------------------------------- requests served by threads
\* The server started at line 346 serves each request on a thread of its
\* own and the code takes no lock, so the handlers of /new_transaction and
\* /add_block run between the lines of a /mine request. The /mine request
\* is cut at three points of Blockchain.interface.

\* interface, lines 117-125: the test of the pool, last_block, new_block.
MineBuild ==
    /\ miner.pc = "idle"
    /\ ~blockchain_is_list
    /\ Len(chain) < MaxChain
    /\ IF unconfirmed_transactions = <<>>
       THEN /\ last' = Outcome("mine", "no_tx")
            /\ UNCHANGED miner
       ELSE \E now \in Times :
            LET last_blk == last_block(chain)
                new_block == Block(last_blk.index + 1, unconfirmed_transactions,
                                   now, last_blk.hash, now)
            IN  /\ miner' = [pc |-> "built", block |-> new_block,
                             proof |-> NoHash,
                             pending |-> unconfirmed_transactions]
                /\ UNCHANGED last
    /\ UNCHANGED <<chain, unconfirmed_transactions, blockchain_is_list, participants>>

\* interface, line 127: proof_of_work on new_block as it is now.
MineProof ==
    /\ miner.pc = "built"
    /\ LET pow == proof_of_work(miner.block)
       IN  miner' = [miner EXCEPT !.pc = "proved", !.block = pow.block,
                                  !.proof = pow.proof]
    /\ UNCHANGED <<chain, unconfirmed_transactions, blockchain_is_list,
                   participants, last>>

\* interface, lines 128-132: add_block on the chain as it is now, the pool
\* rebound to an empty list; then the rest of the handler, consensus and
\* the announcement (lines 336-343).
MineFinish ==
    /\ miner.pc = "proved"
    /\ LET res == add_block(chain, miner.block, miner.proof)
       IN  \E names \in ResponseSeqs(Cardinality(participants)) :
           LET c == consensus(res.chain, ResponsesOf(names))
           IN  /\ chain' = c.chain
               /\ blockchain_is_list' = (c.outcome = "replaced")
               /\ unconfirmed_transactions' = <<>>
               /\ last' = [Outcome("mine",
                              IF c.outcome = "kept" THEN "mined"
                              ELSE "raised") EXCEPT
                             !.added = res.added, !.index = miner.block.index,
                             !.proof = miner.proof,
                             !.recomputed = compute_hash(miner.block),
                             !.consensus = c.outcome,
                             !.responses = names]
    /\ miner' = Idle
    /\ UNCHANGED participants

NextThreads ==
    \/ NewTransaction
    \/ MineBuild
    \/ MineProof
    \/ MineFinish
    \/ AddBlock
    \/ RegisterNode

SpecThreads == Init /\ [][NextThreads]_vars

\* ------------------------------------------------------------- properties
\* A chain is valid: the first block's stored hash is its digest; every
\* later block links to the hash of the block before it, stores its digest,
\* and that digest has the leading zeros.
ChainValid(c) ==
    /\ c # <<>>
    /\ c[1].hash = compute_hash(c[1])
    /\ \A i \in 2..Len(c) :
          /\ c[i].previous_hash = c[i - 1].hash
          /\ c[i].hash = compute_hash(c[i])
          /\ StartsWithZeros(c[i].hash, difficulty)

\* A step of the /mine handler that found transactions to mine.
MinedStep ==
    /\ last'.op = "mine"
    /\ ~blockchain_is_list
    /\ unconfirmed_transactions # <<>>

\* C1: with a non-empty pool, mining appends exactly one block, linked to
\* the previous tip, empties the pool and returns the previous tip's index
\* plus one.
C1_MineAppendsOneBlock ==
    [][MinedStep =>
          /\ Len(chain') = Len(chain) + 1
          /\ last_block(chain').previous_hash = last_block(chain).hash
          /\ unconfirmed_transactions' = <<>>
          /\ last'.index = last_block(chain).index + 1]_vars

\* C2: when add_block rejects the mined block, the pool is left as it was
\* and no block index is returned.
C2_RejectedMineKeepsPool ==
    [][(MinedStep /\ ~last'.added) =>
          /\ unconfirmed_transactions' = unconfirmed_transactions
          /\ last'.index = 0
          /\ last'.ret # "mined"]_vars

\* C3: add_block returns false and changes neither the chain nor the pool
\* when the block's previous_hash is not the tip's hash, when the claimed
\* hash lacks the leading zeros, or when it is not the block's digest.
\* A block rejected while mining leaves the chain unchanged as well.
C3_RejectionChangesNothing ==
    [][/\ (last'.op = "add_block" /\ last'.why \in {"stale", "difficulty", "digest"}) =>
             /\ ~last'.added
             /\ last'.ret = "discarded"
             /\ chain' = chain
             /\ unconfirmed_transactions' = unconfirmed_transactions
       /\ (MinedStep /\ ~last'.added /\ last'.consensus # "replaced") =>
             chain' = chain]_vars

\* C3, witness: a block on the tip whose claimed hash has the leading zeros
\* but is not its digest was discarded.
C3_Witness ==
    /\ last.op = "add_block"
    /\ last.why = "digest"
    /\ last.ret = "discarded"

\* C4: every block after the first has the hash of the block before it as
\* its previous_hash.
C4_ChainLinked ==
    \A i \in 2..Len(chain) : chain[i].previous_hash = chain[i - 1].hash

\* C5: every block's stored hash is the digest of its fields, and the stored
\* hash of every block after the first has the leading zeros.
C5_TamperEvident ==
    /\ \A i \in 1..Len(chain) : chain[i].hash = compute_hash(chain[i])
    /\ \A i \in 2..Len(chain) : StartsWithZeros(chain[i].hash, difficulty)

\* C6: the hash proof_of_work returns has the leading zeros, and the digest
\* of the block recomputed right after it returns is that hash.
C6_ProofReproducible ==
    (last.op = "mine" /\ last.proof # NoHash) =>
        /\ StartsWithZeros(last.proof, difficulty)
        /\ last.recomputed = last.proof

\* C7: check_chain_validity returns true exactly for the valid chains, those
\* of the node (genesis plus mined blocks) and those served by peers.
C7_ValidityDecided ==
    \A c \in {chain} \cup {Response(n).chain : n \in ResponseNames \ {"fails", "lie"}} :
        LET v == check_chain_validity(c)
        IN  /\ ~v.raised
            /\ v.result = ChainValid(c)

\* A response qualifies against a local chain of n blocks: its chain is
\* longer and valid.
Qualifies(name, n) ==
    /\ ~Response(name).fails
    /\ Len(Response(name).chain) > n
    /\ ChainValid(Response(name).chain)

\* Consensus ran on responses that were all fetched.
ConsensusRan(l) ==
    /\ l.op = "mine"
    /\ l.consensus # "none"
    /\ \A i \in 1..Len(l.responses) : ~Response(l.responses[i]).fails

\* The length of the local chain when consensus starts, in a /mine step.
LocalLen == IF last'.added THEN Len(chain) + 1 ELSE Len(chain)

\* C8: the chain never gets shorter, it is replaced only by a longer valid
\* candidate, and without one it is unchanged and the outcome is kept.
C8_ReplacedOnlyByLongerValid ==
    [][/\ last'.op \in {"new_transaction", "mine", "add_block"} =>
             Len(chain') >= Len(chain)
       /\ ConsensusRan(last') =>
             \/ \E i \in 1..Len(last'.responses) :
                    Qualifies(last'.responses[i], LocalLen)
             \/ /\ last'.consensus = "kept"
                /\ Len(chain') = LocalLen
                /\ SubSeq(chain', 1, Len(chain)) = chain]_vars

\* The first of the longest qualifying responses.
Best(names, n) ==
    CHOOSE i \in 1..Len(names) :
        /\ Qualifies(names[i], n)
        /\ \A j \in 1..Len(names) :
              Qualifies(names[j], n) =>
                 \/ Len(Response(names[j]).chain) < Len(Response(names[i]).chain)
                 \/ (Len(Response(names[j]).chain) = Len(Response(names[i]).chain)
                     /\ i <= j)

\* C9: consensus installs the first of the longest qualifying chains and
\* reports replaced; without a qualifying chain it reports kept.
C9_LongestValidSelected ==
    [][ConsensusRan(last') =>
          IF \E i \in 1..Len(last'.responses) :
                 Qualifies(last'.responses[i], LocalLen)
          THEN /\ last'.consensus = "replaced"
               /\ chain' = Response(last'.responses[Best(last'.responses, LocalLen)]).chain
          ELSE last'.consensus = "kept"]_vars

\* The dumps whose blocks are not linked.
TamperedDump(name) == name = "broken3"

\* C11: a /register_with that receives a tampered dump ends in a rejection,
\* not in a raised exception, and leaves the chain and the pool as they
\* were.
C11_TamperedDumpRejected ==
    [][(last'.op = "register_with" /\ TamperedDump(last'.dump)) =>
          /\ last'.ret # "raised"
          /\ chain' = chain
          /\ unconfirmed_transactions' = unconfirmed_transactions]_vars

\* The chain a dump was taken from, for the dumps of valid chains.
DumpedChain(name) == IF name = "peer1" THEN Peer1 ELSE Peer2

\* C12: a /register_with that receives the dump of a valid chain, in block
\* views or as get_chain gives it, reconstructs a chain equal to the dumped
\* one, block for block and field for field.
C12_DumpRoundTrip ==
    [][(last'.op = "register_with" /\ last'.dump \in {"peer1", "peer2", "dict2"}) =>
          /\ last'.why \notin {"KeyError", "tampered"}
          /\ chain' = DumpedChain(last'.dump)]_vars

\* C13: /mine with an empty pool answers that there is nothing to mine,
\* mines no block and leaves the chain and the pool unchanged.
C13_EmptyPoolNothingMined ==
    [][(last'.op = "mine" /\ ~blockchain_is_list
            /\ unconfirmed_transactions = <<>>) =>
          /\ last'.ret = "no_tx"
          /\ last'.proof = NoHash
          /\ last'.consensus = "none"
          /\ chain' = chain
          /\ unconfirmed_transactions' = <<>>]_vars

\* A /mine has just answered an empty pool.
C13_Witness ==
    /\ last.op = "mine"
    /\ last.ret = "no_tx"
    /\ last.proof = NoHash
    /\ unconfirmed_transactions = <<>>

\* Consensus ran and the fetch of some participant's chain failed.
FetchFailed(l) ==
    /\ l.op = "mine"
    /\ l.consensus # "none"
    /\ \E i \in 1..Len(l.responses) : Response(l.responses[i]).fails

\* C16: a participant whose fetch fails is skipped: consensus still ends
\* replaced or kept, as it would without that participant, so it ends kept
\* with the chain unchanged when no other participant serves a longer valid
\* chain.
C16_FailingPeerSkipped ==
    [][FetchFailed(last') =>
          /\ last'.consensus \in {"replaced", "kept"}
          /\ (\A i \in 1..Len(last'.responses) :
                  ~Qualifies(last'.responses[i], LocalLen)) =>
                 /\ last'.consensus = "kept"
                 /\ Len(chain') = LocalLen]_vars

\* C17: check_chain_validity leaves every block of the chain it checked,
\* the node's own or a peer's, with the fields it had, stored hash included.
C17_ValidityCheckPure ==
    \A c \in {chain} \cup {Response(n).chain : n \in ResponseNames \ {"fails", "lie"}} :
        check_chain_validity(c).chain = c

\* C18: every block's index is its position in the chain, counted from 0.
C18_IndexIsPosition ==
    \A i \in 1..Len(chain) : chain[i].index = i - 1

\* A /mine request appends or discards its block in this step.
MineFinishStep == miner.pc = "proved" /\ miner'.pc = "idle"

\* C14: a mined block whose previous_hash is no longer the hash of the tip
\* is discarded: the chain is unchanged and linked, and the transactions of
\* the block are still in the pool.
C14_StaleMinedBlockDiscarded ==
    [][(MineFinishStep /\ miner.block.previous_hash # last_block(chain).hash) =>
          /\ chain' = chain
          /\ \A i \in 2..Len(chain') :
                 chain'[i].previous_hash = chain'[i - 1].hash
          /\ \A i \in 1..Len(miner.block.transactions) :
                 \E j \in 1..Len(unconfirmed_transactions') :
                    unconfirmed_transactions'[j] = miner.block.transactions[i]]_vars

\* C20: transactions submitted after the block was built and before the
\* pool is reset are still in the pool when /mine completes, and the block
\* holds exactly the transactions that were pending when it was built.
C20_SubmissionDuringMining ==
    [][(MineFinishStep /\ Len(unconfirmed_transactions) > Len(miner.pending)) =>
          /\ unconfirmed_transactions' =
                 SubSeq(unconfirmed_transactions, Len(miner.pending) + 1,
                        Len(unconfirmed_transactions))
          /\ miner.block.transactions = miner.pending
          /\ last'.added => last_block(chain').transactions = miner.pending]_vars
====
